---------------------------- MODULE Spec2Model ----------------------------
(***************************************************************************)
(* A model of the news-portal pipeline: the store (source_item, analysis,  *)
(* verification, post), the Celery tasks that write it (ingestor.run,      *)
(* analyst.build, verifier.verify, post_builder.build, publisher.publish), *)
(* the gateway endpoints that call them, and slugify as a function.        *)
(*                                                                         *)
(* Numbers.  Sub-scores are whole points (0..100).  The composite score is *)
(* kept in hundredths of a point, so that the weights 0.30, 0.25, 0.15,    *)
(* 0.20, 0.10 are the integers 30, 25, 15, 20, 10.  For every source count *)
(* the Python float expression of verifier/tasks.py:40-48 is exact (53.0,  *)
(* 59.0, 65.0, 71.0, 77.0, 83.0), so the integer arithmetic below agrees   *)
(* with the float arithmetic of the code on every input.                   *)
(*                                                                         *)
(* Strings are sequences of one-character strings.  A nullable column is a *)
(* sequence of length 0 (NULL) or 1.                                       *)
(***************************************************************************)
EXTENDS Integers, Sequences, FiniteSets, TLC

(***************************************************************************)
(* Bounds of the model.                                                    *)
(***************************************************************************)
\* most analyses the store holds when the verifier is studied
MaxAnalyses == 2
\* longest source_ids list a request carries when the verifier is studied
MaxSources == 6
\* longest source_ids list a request carries in the whole pipeline
MaxPipeSources == 2
\* number of calendar days the clock runs through
MaxDay == 2
\* most posts the store holds
MaxPosts == 2
\* longest string slugify is called with, the quoted example apart
MaxStrLen == 4
\* most source items the store holds
MaxItems == 2
\* seconds past midnight the clock is followed through, second by second
MaxSecond == 1

(***************************************************************************)
(* Program constants.                                                      *)
(***************************************************************************)
\* verifier/tasks.py:40  min(1.0, n_sources / 5.0) * 100
K == 5
\* verifier/tasks.py:41-44
CScore == 70
TScore == 80
MScore == 75
FScore == 85
\* verifier/tasks.py:47, in hundredths
WeightS == 30
WeightC == 25
WeightT == 15
WeightM == 20
WeightF == 10
\* verifier/tasks.py:50 and :52, in hundredths of a point
PassedThreshold == 6500
FlaggedThreshold == 5000
\* datetime: seconds in a day
SecondsPerDay == 86400

\* common/models.py:37-42  TopicEnum values
TopicEnum == {"ecom", "it", "o&g"}
\* common/models.py:45-50
VerificationStatus == {"passed", "flagged", "failed"}
\* common/models.py:53-59
PostStatus == {"draft", "in_review", "approved", "published"}

\* the worker processes that execute jobs concurrently
Workers == {"w1", "w2"}

Min(a, b) == IF a <= b THEN a ELSE b

(***************************************************************************)
(* Strings.                                                                *)
(***************************************************************************)
UpperChars == <<"A","B","C","D","E","F","G","H","I","J","K","L","M",
                "N","O","P","Q","R","S","T","U","V","W","X","Y","Z">>
LowerChars == <<"a","b","c","d","e","f","g","h","i","j","k","l","m",
                "n","o","p","q","r","s","t","u","v","w","x","y","z">>
DigitChars == <<"0","1","2","3","4","5","6","7","8","9">>

Range(s) == {s[i] : i \in DOMAIN s}

\* str.lower() on one ASCII character
LowerChar(c) ==
    IF \E i \in DOMAIN UpperChars : UpperChars[i] = c
    THEN LowerChars[CHOOSE i \in DOMAIN UpperChars : UpperChars[i] = c]
    ELSE c

\* the character class [a-z0-9\-]
SlugChar(c) == c \in Range(LowerChars) \cup Range(DigitChars) \cup {"-"}

\* value.lower()
StrLower(s) == [i \in DOMAIN s |-> LowerChar(s[i])]

\* re.sub(r"[^a-z0-9\-]+", "-", value): every maximal run of characters
\* outside the class becomes one hyphen
RECURSIVE SubNonSlug(_)
SubNonSlug(s) ==
    IF s = <<>> THEN <<>>
    ELSE IF SlugChar(Head(s)) THEN <<Head(s)>> \o SubNonSlug(Tail(s))
    ELSE IF Len(s) > 1 /\ ~SlugChar(s[2]) THEN SubNonSlug(Tail(s))
    ELSE <<"-">> \o SubNonSlug(Tail(s))

\* re.sub(r"-+", "-", value)
RECURSIVE CollapseHyphens(_)
CollapseHyphens(s) ==
    IF s = <<>> THEN <<>>
    ELSE IF Head(s) = "-" /\ Len(s) > 1 /\ s[2] = "-" THEN CollapseHyphens(Tail(s))
    ELSE <<Head(s)>> \o CollapseHyphens(Tail(s))

\* value.strip("-")
RECURSIVE LStripHyphens(_)
LStripHyphens(s) ==
    IF s # <<>> /\ Head(s) = "-" THEN LStripHyphens(Tail(s)) ELSE s

RECURSIVE RStripHyphens(_)
RStripHyphens(s) ==
    IF s # <<>> /\ s[Len(s)] = "-" THEN RStripHyphens(SubSeq(s, 1, Len(s) - 1)) ELSE s

StripHyphens(s) == RStripHyphens(LStripHyphens(s))

\* mutant: the second re.sub (the collapse of hyphen runs) forgotten
slugifyNoCollapse(v) == StripHyphens(SubNonSlug(StrLower(v)))

\* post-builder/tasks.py:60-65
slugify(v) == StripHyphens(CollapseHyphens(SubNonSlug(StrLower(v))))

\* str(n) for n >= 0
RECURSIVE IntStr(_)
IntStr(n) ==
    IF n < 10 THEN <<DigitChars[n + 1]>>
    ELSE IntStr(n \div 10) \o <<DigitChars[(n % 10) + 1]>>

\* topic.value as characters
TopicValue(t) ==
    CASE t = "ecom" -> <<"e","c","o","m">>
      [] t = "it"   -> <<"i","t">>
      [] t = "o&g"  -> <<"o","&","g">>

\* the calendar day of a timestamp (days since the epoch)
DayOf(ts) == ts \div SecondsPerDay

\* utcnow().strftime("%Y-%m-%d"); the clock of the model stays within
\* January 1970, the first month after the epoch
DateStr(ts) ==
    <<"1","9","7","0","-","0","1","-">>
        \o (IF DayOf(ts) + 1 < 10 THEN <<"0">> ELSE <<>>) \o IntStr(DayOf(ts) + 1)


(***************************************************************************)
(* State.                                                                  *)
(*   now           the wall clock, seconds since the epoch (utcnow())      *)
(*   source_item   the source_item table: rows [id, topic, source_url,     *)
(*                 hashes, fetched_at]                                     *)
(*   analysis      the analysis table: rows [id, topic, items]             *)
(*   verification  the verification table: rows [id, analysis_id, checks,  *)
(*                 reliability_score, status]                              *)
(*   post          the post table: rows [id, slug, topic, sources,         *)
(*                 reliability_score, status, cms_id, created_at,          *)
(*                 updated_at] and built_from, a history field (no         *)
(*                 column): the analysis the post was built from           *)
(*   queue         analysis ids of the verifier.verify messages the        *)
(*                 gateway has enqueued and no worker has taken yet        *)
(*   jobs          per worker: the task it executes and its arguments (arg,   *)
(*                 topic for ingest and analyze, channels for publish),    *)
(*                 where it is in it (pc), the                             *)
(*                 row it is about to insert, the result it      *)
(*                 returned or the error it raised, and (sent) what its    *)
(*                 channel adapters did                                    *)
(*   value         the string slugify is called with                       *)
(*   slugified     what slugify returned for value and, after that, for    *)
(*                 its own result (a sequence of 0, 1 or 2 strings)        *)
(* Row ids stand for the serial primary keys: each is the next unused      *)
(* value; the gaps a failed insert leaves in a database sequence are not   *)
(* modelled (ids are opaque keys).                                         *)
(***************************************************************************)
VARIABLES now, source_item, analysis, verification, post, queue, jobs,
          value, slugified

vars == <<now, source_item, analysis, verification, post, queue, jobs,
          value, slugified>>

(***************************************************************************)
(* The reliability verifier's arithmetic (verifier/tasks.py:36-63).        *)
(***************************************************************************)
\* analysis.items.get("source_ids", []) if analysis.items else []
SourceIdsOf(items) ==
    IF "source_ids" \in DOMAIN items THEN items["source_ids"] ELSE <<>>

\* mutant: the min() forgotten, S grows past 100
SScoreUnsaturated(n) == (n * 100) \div K

\* mutant: saturation one source late
SScoreLateSaturation(n) == (Min(n, K + 1) * 100) \div (K + 1)

\* min(1.0, n_sources / 5.0) * 100
SScore(n) == (Min(n, K) * 100) \div K

\* mutant: the weights of T and M exchanged
FinalScoreSwapped(checks) ==
    WeightS * checks.S + WeightC * checks.C + WeightM * checks.T
        + WeightT * checks.M + WeightF * checks.F

\* mutant: the C term forgotten in the sum
FinalScoreNoC(checks) ==
    WeightS * checks.S + WeightT * checks.T + WeightM * checks.M + WeightF * checks.F

\* 0.30*S + 0.25*C + 0.15*T + 0.20*M + 0.10*F, in hundredths of a point
FinalScore(checks) ==
    WeightS * checks.S + WeightC * checks.C + WeightT * checks.T
        + WeightM * checks.M + WeightF * checks.F

\* mutant: > in place of >= at the passed threshold
StatusOfStrict(score) ==
    IF score > PassedThreshold THEN "passed"
    ELSE IF score >= FlaggedThreshold THEN "flagged"
    ELSE "failed"

\* the if / elif / else on final_score
StatusOf(score) ==
    IF score >= PassedThreshold THEN "passed"
    ELSE IF score >= FlaggedThreshold THEN "flagged"
    ELSE "failed"

\* the checks breakdown computed for an analysis row
ChecksOf(an) ==
    [S |-> SScore(Len(SourceIdsOf(an.items))),
     C |-> CScore, T |-> TScore, M |-> MScore, F |-> FScore]

\* mutant: a freshness bonus, the day of the call counted as a source
NewVerificationFresh(an) ==
    LET checks == [S |-> SScore(Len(SourceIdsOf(an.items)) + DayOf(now)),
                   C |-> CScore, T |-> TScore, M |-> MScore, F |-> FScore]
    IN [id |-> 0,
        analysis_id |-> an.id,
        checks |-> checks,
        reliability_score |-> FinalScore(checks),
        status |-> StatusOf(FinalScore(checks))]

\* the Verification(...) object built for an analysis row, before its insert
NewVerification(an) ==
    [id |-> 0,
     analysis_id |-> an.id,
     checks |-> ChecksOf(an),
     reliability_score |-> FinalScore(ChecksOf(an)),
     status |-> StatusOf(FinalScore(ChecksOf(an)))]

NoResult ==
    [ok |-> FALSE, error |-> "", id |-> 0, score |-> <<>>, status |-> "", cms_id |-> <<>>]

\* what a job's channel adapters did: "none" for an adapter that was not
\* called
NoDelivery == [cms |-> "none", telegram |-> "none"]

IdleJob ==
    [pc |-> "idle", op |-> "", arg |-> 0, topic |-> "", channels |-> {}, row |-> <<>>,
     result |-> NoResult, sent |-> NoDelivery]

\* a task that raised: the except branch rolled back and re-raised
Raised(op, arg, err) ==
    [pc |-> "done", op |-> op, arg |-> arg, topic |-> "", channels |-> {}, row |-> <<>>,
     result |-> [NoResult EXCEPT !.error = err], sent |-> NoDelivery]

\* a task that returned
Returned(op, arg, id, score, status, cms_id) ==
    [pc |-> "done", op |-> op, arg |-> arg, topic |-> "", channels |-> {}, row |-> <<>>,
     result |-> [ok |-> TRUE, error |-> "", id |-> id, score |-> score,
                 status |-> status, cms_id |-> cms_id],
     sent |-> NoDelivery]

MaxId(rows) == IF rows = {} THEN 0 ELSE CHOOSE m \in {r.id : r \in rows} : \A r \in rows : r.id <= m

\* session.get(Model, id)
GetRow(rows, id) == {r \in rows : r.id = id}

Init ==
    /\ now = 0
    /\ source_item = {}
    /\ analysis = {}
    /\ verification = {}
    /\ post = {}
    /\ queue = {}
    /\ jobs = [w \in Workers |-> IdleJob]
    /\ value = <<>>
    /\ slugified = <<>>

(***************************************************************************)
(* The clock.                                                              *)
(***************************************************************************)
\* midnight passes: utcnow() is on the next calendar day
TickDay ==
    /\ DayOf(now) + 1 < MaxDay
    /\ now' = (DayOf(now) + 1) * SecondsPerDay
    /\ UNCHANGED <<source_item, value, slugified, analysis, verification, post, queue, jobs>>

\* a second passes
TickSecond ==
    /\ now % SecondsPerDay < MaxSecond
    /\ now' = now + 1
    /\ UNCHANGED <<source_item, value, slugified, analysis, verification, post, queue, jobs>>

(***************************************************************************)
(* ingestor.run (ingestor/tasks.py:24-67) in two steps: the SourceItem     *)
(* object made from the topic and the clock, then the insert and commit.   *)
(* The title, excerpt, content and the other placeholder columns are       *)
(* constants and are left out of the row.                                  *)
(***************************************************************************)
\* the topic strings a task can be called with: the values of TopicEnum and
\* one that is not a value
TopicArgs == TopicEnum \cup {"sport"}

\* line 41: f"https://example.com/{topic}/{int(now.timestamp())}"
SourceUrl(topic, ts) ==
    <<"h","t","t","p","s",":","/","/","e","x","a","m","p","l","e",".","c","o","m","/">>
        \o TopicValue(topic) \o <<"/">> \o IntStr(ts)

\* lines 39-56: the SourceItem object, before its insert
NewSourceItem(topic) ==
    [id |-> 0,
     topic |-> topic,
     source_url |-> SourceUrl(topic, now),
     hashes |-> <<[title_hash |-> "abcdef", content_shingle |-> "ghijkl"]>>,
     fetched_at |-> now]

\* lines 38-56; TopicEnum(topic) raises ValueError for a string that is not
\* a value of the enum
IngestBegin(w, topic) ==
    /\ jobs[w].pc = "idle"
    /\ jobs' = [jobs EXCEPT ![w] =
            IF topic \notin TopicEnum
            THEN [Raised("ingest", 0, "ValueError") EXCEPT !.topic = topic]
            ELSE [pc |-> "commit", op |-> "ingest", arg |-> 0,
                  topic |-> topic, channels |-> {},
                  row |-> <<NewSourceItem(topic)>>,
                  result |-> NoResult, sent |-> NoDelivery]]
    /\ UNCHANGED <<source_item, value, slugified, now, analysis, verification, post, queue>>

\* the unique constraint on source_item.source_url (common/models.py:65)
UrlConflict(row) == \E x \in source_item : x.source_url = row.source_url

\* the outcome of session.add(source); session.commit()
CommitSourceItem(row) ==
    IF UrlConflict(row)
    THEN [rows |-> source_item, id |-> 0]
    ELSE [rows |-> source_item \cup {[row EXCEPT !.id = MaxId(source_item) + 1]},
          id |-> MaxId(source_item) + 1]

\* lines 57-67
IngestCommit(w) ==
    /\ jobs[w].pc = "commit"
    /\ jobs[w].op = "ingest"
    /\ LET row == jobs[w].row[1]
           out == CommitSourceItem(row)
       IN /\ source_item' = out.rows
          /\ jobs' = [jobs EXCEPT ![w] =
                IF out.id = 0
                THEN [Raised("ingest", 0, "IntegrityError") EXCEPT !.topic = jobs[w].topic]
                ELSE [Returned("ingest", 0, out.id, <<>>, "completed", <<>>) EXCEPT
                         !.topic = jobs[w].topic]]
    /\ UNCHANGED <<value, slugified, now, analysis, verification, post, queue>>

(***************************************************************************)
(* analyst.build (analyst/tasks.py:23-76).  The task reads nothing and     *)
(* commits one row.                                                        *)
(***************************************************************************)
\* the analysis table after session.add(analysis); session.commit()
InsertAnalysis(topic, source_ids) ==
    analysis \cup {[id |-> MaxId(analysis) + 1,
                    topic |-> topic,
                    items |-> [source_ids |-> source_ids]]}

\* build_analysis called on its own (scripts/seed_demo_data.py:30)
BuildAnalysis(topic, source_ids) ==
    /\ analysis' = InsertAnalysis(topic, source_ids)
    /\ UNCHANGED <<source_item, value, slugified, now, verification, post, queue, jobs>>

\* items that is empty: the JSON object {}
EmptyItems == [k \in {} |-> <<>>]

\* the JSON objects the items column holds (common/models.py:105, "list of
\* source IDs or facts"): none of its keys is required by the schema
ItemsShapes ==
    {EmptyItems, [facts |-> <<1>>], [source_ids |-> <<>>], [source_ids |-> <<1, 2>>]}

\* a row of the analysis table with items of any of these shapes, as
\* verify_analysis provides for (verifier/tasks.py:37)
StoreAnalysisRow(topic, items) ==
    /\ analysis' = analysis \cup {[id |-> MaxId(analysis) + 1,
                                   topic |-> topic,
                                   items |-> items]}
    /\ UNCHANGED <<source_item, value, slugified, now, verification, post, queue, jobs>>

\* build_analysis as a job, with what it returns or raises; TopicEnum(topic)
\* (line 55) raises ValueError for a string that is not a value of the enum
AnalyzeJob(w, topic, source_ids) ==
    /\ jobs[w].pc = "idle"
    /\ IF topic \notin TopicEnum
       THEN /\ analysis' = analysis
            /\ jobs' = [jobs EXCEPT ![w] =
                  [Raised("analyze", 0, "ValueError") EXCEPT !.topic = topic]]
       ELSE /\ analysis' = InsertAnalysis(topic, source_ids)
            /\ jobs' = [jobs EXCEPT ![w] =
                  [Returned("analyze", 0, MaxId(analysis) + 1, <<>>, "completed", <<>>)
                      EXCEPT !.topic = topic]]
    /\ UNCHANGED <<source_item, value, slugified, now, verification, post, queue>>

\* POST /v1/analysis/build (gateway-api/main.py:80-89): build the analysis,
\* wait for its id, enqueue verifier.verify for it
AnalysisBuildEndpoint(topic, source_ids) ==
    /\ analysis' = InsertAnalysis(topic, source_ids)
    /\ queue' = queue \cup {MaxId(analysis) + 1}
    /\ UNCHANGED <<source_item, value, slugified, now, verification, post, jobs>>

(***************************************************************************)
(* verifier.verify (verifier/tasks.py:24-89) in two steps: the read of the *)
(* analysis with the computation, then the insert and commit.              *)
(***************************************************************************)
\* mutant: the check of lines 34-35 left out, a missing analysis verified
\* as one with no sources
VerifyBeginNoCheck(w, analysis_id) ==
    /\ jobs[w].pc = "idle"
    /\ jobs' = [jobs EXCEPT ![w] =
            [pc |-> "commit", op |-> "verify", arg |-> analysis_id,
             topic |-> "", channels |-> {},
             row |-> <<NewVerification([id |-> analysis_id,
                                        items |-> [source_ids |-> <<>>]])>>,
             result |-> NoResult, sent |-> NoDelivery]]

\* lines 31-72: session.get, the scores, the Verification object
VerifyBegin(w, analysis_id) ==
    /\ jobs[w].pc = "idle"
    /\ jobs' = [jobs EXCEPT ![w] =
            IF GetRow(analysis, analysis_id) = {}
            THEN Raised("verify", analysis_id, "ValueError")
            ELSE [pc |-> "commit", op |-> "verify", arg |-> analysis_id,
                  topic |-> "", channels |-> {},
                  row |-> <<NewVerification(CHOOSE an \in analysis : an.id = analysis_id)>>,
                  result |-> NoResult, sent |-> NoDelivery]]

\* a worker takes an enqueued verifier.verify message
DeliverVerify(w) ==
    /\ \E analysis_id \in queue :
        /\ VerifyBegin(w, analysis_id)
        /\ queue' = queue \ {analysis_id}
    /\ UNCHANGED <<source_item, value, slugified, now, analysis, verification, post>>

\* verify_analysis called for any id: a direct call
\* (scripts/seed_demo_data.py:33) or a redelivered message
CallVerify(w, analysis_id) ==
    /\ VerifyBegin(w, analysis_id)
    /\ UNCHANGED <<source_item, value, slugified, now, analysis, verification, post, queue>>

\* mutant: no unique constraint on verification.analysis_id
NoVerificationConflict(row) == FALSE

\* the unique constraint on verification.analysis_id (common/models.py:122)
VerificationConflict(row) ==
    \E v \in verification : v.analysis_id = row.analysis_id

\* mutant: re-verification replaces the stored row
CommitVerificationReplace(row) ==
    [rows |-> {v \in verification : v.analysis_id # row.analysis_id}
                \cup {[row EXCEPT !.id = MaxId(verification) + 1]},
     id |-> MaxId(verification) + 1]

\* the outcome of session.add(verification); session.commit() against the
\* committed table: the table afterwards, and the id given to the row (0
\* when the insert was rejected and rolled back)
CommitVerification(row) ==
    IF VerificationConflict(row)
    THEN [rows |-> verification, id |-> 0]
    ELSE [rows |-> verification \cup {[row EXCEPT !.id = MaxId(verification) + 1]},
          id |-> MaxId(verification) + 1]

\* lines 73-89
VerifyCommit(w) ==
    /\ jobs[w].pc = "commit"
    /\ jobs[w].op = "verify"
    /\ LET row == jobs[w].row[1]
           out == CommitVerification(row)
       IN /\ verification' = out.rows
          /\ jobs' = [jobs EXCEPT ![w] =
                IF out.id = 0
                THEN Raised("verify", jobs[w].arg, "IntegrityError")
                ELSE Returned("verify", jobs[w].arg, out.id,
                              <<row.reliability_score>>, row.status, <<>>)]
    /\ UNCHANGED <<source_item, value, slugified, now, analysis, post, queue>>


(***************************************************************************)
(* post_builder.build (post-builder/tasks.py:68-146) in two steps: the     *)
(* reads with the rendering, then the insert and commit.  The title, the   *)
(* rendered body, the Telegram summary and the SEO record are functions of *)
(* the analysis and the date alone and are left out of the row.            *)
(***************************************************************************)
\* mutant: the analysis id left out of the slug
SlugOfNoId(topic, id, ts) ==
    slugify(TopicValue(topic) \o <<"-">> \o DateStr(ts))

\* line 108: slugify(f"{analysis.topic.value}-{analysis.id}-{event_date}")
SlugOf(topic, id, ts) ==
    slugify(TopicValue(topic) \o <<"-">> \o IntStr(id) \o <<"-">> \o DateStr(ts))

\* lines 81-82: the verification's score, or None when there is none
ReadReliabilityScore(analysis_id) ==
    IF \E v \in verification : v.analysis_id = analysis_id
    THEN <<(CHOOSE v \in verification : v.analysis_id = analysis_id).reliability_score>>
    ELSE <<>>

\* lines 83-135: the Post object built for an analysis row, before its insert
NewPost(an) ==
    [id |-> 0,
     slug |-> SlugOf(an.topic, an.id, now),
     topic |-> an.topic,
     sources |-> an.items,
     reliability_score |-> ReadReliabilityScore(an.id),
     status |-> "draft",
     cms_id |-> <<>>,
     created_at |-> now,
     updated_at |-> now,
     built_from |-> an.id]

\* lines 75-135, called through POST /v1/post/build (gateway-api/main.py:100)
\* or directly (scripts/seed_demo_data.py:35) for any id
BuildBegin(w, analysis_id) ==
    /\ jobs[w].pc = "idle"
    /\ jobs' = [jobs EXCEPT ![w] =
            IF GetRow(analysis, analysis_id) = {}
            THEN Raised("build", analysis_id, "ValueError")
            ELSE [pc |-> "commit", op |-> "build", arg |-> analysis_id,
                  topic |-> "", channels |-> {},
                  row |-> <<NewPost(CHOOSE an \in analysis : an.id = analysis_id)>>,
                  result |-> NoResult, sent |-> NoDelivery]]
    /\ UNCHANGED <<source_item, value, slugified, now, analysis, verification, post, queue>>

\* the unique constraint on post.slug (common/models.py:135)
SlugConflict(row) == \E p \in post : p.slug = row.slug

\* the outcome of session.add(post); session.commit()
CommitPost(row) ==
    IF SlugConflict(row)
    THEN [rows |-> post, id |-> 0]
    ELSE [rows |-> post \cup {[row EXCEPT !.id = MaxId(post) + 1]},
          id |-> MaxId(post) + 1]

\* lines 136-146
BuildCommit(w) ==
    /\ jobs[w].pc = "commit"
    /\ jobs[w].op = "build"
    /\ LET row == jobs[w].row[1]
           out == CommitPost(row)
       IN /\ post' = out.rows
          /\ jobs' = [jobs EXCEPT ![w] =
                IF out.id = 0
                THEN Raised("build", jobs[w].arg, "IntegrityError")
                ELSE Returned("build", jobs[w].arg, out.id, <<>>, "", <<>>)]
    /\ UNCHANGED <<source_item, value, slugified, now, analysis, verification, queue>>

(***************************************************************************)
(* POST /v1/post/approve (gateway-api/main.py:113-121).                    *)
(***************************************************************************)
\* the row as the session flushes it: a row with a changed column is
\* written with updated_at = utcnow() (common/models.py:146, onupdate); a row
\* whose columns all kept their values is not written
Flushed(old, new) ==
    IF new = old THEN old ELSE [new EXCEPT !.updated_at = now]

\* the post table after post.status = APPROVED; db.commit()
ApprovedTable(post_id) ==
    {IF p.id = post_id THEN Flushed(p, [p EXCEPT !.status = "approved"]) ELSE p : p \in post}

\* an unknown id is answered 404 and changes nothing
PostApproveEndpoint(post_id) ==
    /\ post' = ApprovedTable(post_id)
    /\ UNCHANGED <<source_item, value, slugified, now, analysis, verification, queue, jobs>>

(***************************************************************************)
(* publisher.publish (publisher/tasks.py:58-88).  The CMS adapter is a     *)
(* stub that returns "cms-<slug>" and has no failing path.  The Telegram   *)
(* adapter writes nothing to the store; it returns early when the          *)
(* credentials are not configured, and it logs and swallows a failed       *)
(* request.  The task reads the post, calls the adapters and commits in    *)
(* one step: the adapters change no store state, and the columns written   *)
(* do not depend on the values read.                                       *)
(***************************************************************************)
Channels == {"cms", "telegram"}

\* what _post_to_telegram (lines 33-55) can do: return early without
\* credentials, send, or fail (a response that is not ok, or an exception
\* of requests.post); it returns None in all three cases
TelegramOutcomes == {"skipped", "ok", "error"}

\* _post_to_cms (lines 22-30)
CmsIdOf(p) == <<"c","m","s","-">> \o p.slug

\* mutant: elif in place of the second if, Telegram is tried only when the
\* CMS was not requested
DeliveryElif(channels, tg) ==
    [cms |-> IF "cms" \in channels THEN "ok" ELSE "none",
     telegram |-> IF "telegram" \in channels /\ "cms" \notin channels THEN tg ELSE "none"]

\* lines 73-78: the adapters called for the requested channels, and what
\* each did
Delivery(channels, tg) ==
    [cms |-> IF "cms" \in channels THEN "ok" ELSE "none",
     telegram |-> IF "telegram" \in channels THEN tg ELSE "none"]

\* lines 71-79 applied to a post row
PublishedRow(p, channels) ==
    [p EXCEPT !.cms_id = IF "cms" \in channels THEN CmsIdOf(p) ELSE p.cms_id,
              !.status = "published"]

\* line 82: the dict the task returns
PublishResult(p, channels) ==
    Returned("publish", p.id, p.id, <<>>, "published",
             IF "cms" \in channels THEN CmsIdOf(p) ELSE <<>>)

\* mutant: the cms_id committed before the failure stays
RolledBackPartial(p, q) == [p EXCEPT !.cms_id = q.cms_id]

\* lines 83-86: the row in the store after session.rollback(), p being the
\* row read and q the row with the task's assignments
RolledBack(p, q) == p

\* tg is what the Telegram API does when it is called; commit_ok is whether
\* the store accepts session.commit() (line 80), a failed commit being
\* rolled back and re-raised (lines 83-86)
PublishPost(w, post_id, channels, tg, commit_ok) ==
    /\ jobs[w].pc = "idle"
    /\ IF GetRow(post, post_id) = {}
       THEN /\ jobs' = [jobs EXCEPT ![w] =
                  [Raised("publish", post_id, "ValueError") EXCEPT !.channels = channels]]
            /\ post' = post
       ELSE LET p == CHOOSE r \in post : r.id = post_id
                q == PublishedRow(p, channels)
            IN IF commit_ok
               THEN /\ post' = (post \ {p}) \cup {Flushed(p, q)}
                    /\ jobs' = [jobs EXCEPT ![w] =
                          [PublishResult(p, channels) EXCEPT
                              !.channels = channels,
                              !.sent = Delivery(channels, tg)]]
               ELSE /\ post' = (post \ {p}) \cup {RolledBack(p, q)}
                    /\ jobs' = [jobs EXCEPT ![w] =
                          [Raised("publish", post_id, "OperationalError") EXCEPT
                              !.channels = channels,
                              !.sent = Delivery(channels, tg)]]
    /\ UNCHANGED <<source_item, value, slugified, now, analysis, verification, queue>>

\* the caller has the task's result (or its error); the worker is free
Return(w) ==
    /\ jobs[w].pc = "done"
    /\ jobs' = [jobs EXCEPT ![w] = IdleJob]
    /\ UNCHANGED <<source_item, value, slugified, now, analysis, verification, post, queue>>

(***************************************************************************)
(* slugify (post-builder/tasks.py:60-65) called on its own.                *)
(***************************************************************************)
\* the characters the strings are made of: a lowercase and an uppercase
\* letter, a digit, the hyphen, and two characters outside the class
SlugAlphabet == {"a", "B", "7", "-", "!", " "}

\* the string "Ecom News!!"
EcomNews == <<"E","c","o","m"," ","N","e","w","s","!","!">>

\* the strings slugify is called with
SlugInputs ==
    UNION {[1..k -> SlugAlphabet] : k \in 0..MaxStrLen} \cup {EcomNews}

InitSlugify ==
    /\ now = 0
    /\ source_item = {}
    /\ analysis = {}
    /\ verification = {}
    /\ post = {}
    /\ queue = {}
    /\ jobs = [w \in Workers |-> IdleJob]
    /\ value \in SlugInputs
    /\ slugified = <<>>

\* slugify(value)
Slugify ==
    /\ slugified = <<>>
    /\ slugified' = <<slugify(value)>>
    /\ UNCHANGED <<now, source_item, analysis, verification, post, queue, jobs, value>>

\* slugify(slugify(value))
SlugifyAgain ==
    /\ Len(slugified) = 1
    /\ slugified' = Append(slugified, slugify(slugified[1]))
    /\ UNCHANGED <<now, source_item, analysis, verification, post, queue, jobs, value>>

NextSlugify == Slugify \/ SlugifyAgain

SpecSlugify == InitSlugify /\ [][NextSlugify]_vars

(***************************************************************************)
(* Requests and specifications.                                            *)
(***************************************************************************)
\* a source_ids list of n ids
SourceIdList(n) == [i \in 1..n |-> i]

\* The verifier on its own: analyses of every length up to MaxSources,
\* verified one job at a time.
NextVerifier ==
    \/ \E n \in 0..MaxSources :
        /\ Cardinality(analysis) < MaxAnalyses
        /\ AnalysisBuildEndpoint("it", SourceIdList(n))
    \/ \E n \in 0..MaxSources :
        /\ Cardinality(analysis) < MaxAnalyses
        /\ BuildAnalysis("it", SourceIdList(n))
    \/ DeliverVerify("w1")
    \/ \E a \in 1..MaxAnalyses : CallVerify("w1", a)
    \/ VerifyCommit("w1")
    \/ Return("w1")

SpecVerifier == Init /\ [][NextVerifier]_vars

\* Verify jobs delivered, called directly and redelivered on concurrent
\* workers, interleaved at their reads and commits, over several days.
NextRedelivery ==
    \/ TickDay
    \/ \E n \in 0..MaxPipeSources :
        /\ Cardinality(analysis) < MaxAnalyses
        /\ AnalysisBuildEndpoint("it", SourceIdList(n))
    \/ \E w \in Workers : DeliverVerify(w)
    \/ \E w \in Workers, a \in 1..MaxAnalyses : CallVerify(w, a)
    \/ \E w \in Workers : VerifyCommit(w)
    \/ \E w \in Workers : Return(w)

SpecRedelivery == Init /\ [][NextRedelivery]_vars

\* the cap on posts, counting the inserts in flight
PostsBelowCap ==
    Cardinality(post)
        + Cardinality({x \in Workers : jobs[x].pc = "commit" /\ jobs[x].op = "build"})
            < MaxPosts

\* The whole pipeline for one analysis (id 1), its jobs executed one at a
\* time by one worker, in any order.  Here Telegram delivers and the store
\* accepts every commit of the publisher; the other outcomes are those of
\* NextPublisher.
Next ==
    \/ TickDay
    \/ \E t \in TopicEnum, n \in 0..MaxPipeSources :
        /\ analysis = {}
        /\ AnalysisBuildEndpoint(t, SourceIdList(n))
    \/ DeliverVerify("w1")
    \/ CallVerify("w1", 1)
    \/ VerifyCommit("w1")
    \/ PostsBelowCap /\ BuildBegin("w1", 1)
    \/ BuildCommit("w1")
    \/ \E p \in 1..MaxPosts : PostApproveEndpoint(p)
    \/ \E p \in 1..MaxPosts, ch \in SUBSET Channels :
        PublishPost("w1", p, ch, "ok", TRUE)
    \/ Return("w1")

Spec == Init /\ [][Next]_vars

\* The post builder on its own: analyses of every topic, posts built from
\* them by concurrent workers on several days.
NextBuilder ==
    \/ TickDay
    \/ \E t \in TopicEnum :
        /\ Cardinality(analysis) < MaxAnalyses
        /\ BuildAnalysis(t, <<>>)
    \/ \E w \in Workers, a \in 1..MaxAnalyses : PostsBelowCap /\ BuildBegin(w, a)
    \/ \E w \in Workers : BuildCommit(w)
    \/ \E w \in Workers : Return(w)

SpecBuilder == Init /\ [][NextBuilder]_vars

\* The publisher: the post built from one analysis (id 1), verified or
\* not, approved and published by concurrent workers, with every outcome of
\* the Telegram API and of the store's commit.
NextPublisher ==
    \/ /\ analysis = {}
       /\ BuildAnalysis("it", <<>>)
    \/ CallVerify("w1", 1)
    \/ VerifyCommit("w1")
    \/ PostsBelowCap /\ BuildBegin("w1", 1)
    \/ BuildCommit("w1")
    \/ \E p \in 1..MaxPosts : PostApproveEndpoint(p)
    \/ \E w \in Workers, p \in 1..MaxPosts, ch \in SUBSET Channels,
            tg \in TelegramOutcomes, commit_ok \in BOOLEAN :
        PublishPost(w, p, ch, tg, commit_ok)
    \/ \E w \in Workers : Return(w)

SpecPublisher == Init /\ [][NextPublisher]_vars

\* The verifier on analysis rows whose items has any shape the column
\* allows.
NextItems ==
    \/ \E items \in ItemsShapes :
        /\ Cardinality(analysis) < MaxAnalyses
        /\ StoreAnalysisRow("it", items)
    \/ \E w \in Workers, a \in 1..MaxAnalyses : CallVerify(w, a)
    \/ \E w \in Workers : VerifyCommit(w)
    \/ \E w \in Workers : Return(w)

SpecItems == Init /\ [][NextItems]_vars

\* the cap on source items, counting the inserts in flight
ItemsBelowCap ==
    Cardinality(source_item)
        + Cardinality({x \in Workers : jobs[x].pc = "commit" /\ jobs[x].op = "ingest"})
            < MaxItems

\* Every stage with the calls that make it raise: ingest, analyze, verify,
\* build and publish jobs executed one at a time by one worker, for ids that
\* exist and ids that do not, topics that are values of the enum and one
\* that is not, and a store that rejects or fails a commit.
NextFaults ==
    \/ \E t \in TopicArgs : ItemsBelowCap /\ IngestBegin("w1", t)
    \/ IngestCommit("w1")
    \/ \E t \in TopicArgs :
        /\ analysis = {}
        /\ AnalyzeJob("w1", t, SourceIdList(Cardinality(source_item)))
    \/ \E a \in 1..MaxAnalyses : CallVerify("w1", a)
    \/ VerifyCommit("w1")
    \/ \E a \in 1..MaxAnalyses : PostsBelowCap /\ BuildBegin("w1", a)
    \/ BuildCommit("w1")
    \/ \E p \in 1..MaxPosts, ch \in SUBSET Channels, tg \in TelegramOutcomes,
            commit_ok \in BOOLEAN :
        PublishPost("w1", p, ch, tg, commit_ok)
    \/ Return("w1")

SpecFaults == Init /\ [][NextFaults]_vars

\* the source_ids lists of the requests: ids of items the store can hold
SourceIdLists == UNION {[1..k -> 1..MaxItems] : k \in 0..MaxPipeSources}

\* The ingestor and the analyst: ingest runs for every topic on concurrent
\* workers, within a second and seconds and days apart, and analyses built
\* from lists of source ids.
NextIngest ==
    \/ TickSecond
    \/ TickDay
    \/ \E w \in Workers, t \in TopicArgs : ItemsBelowCap /\ IngestBegin(w, t)
    \/ \E w \in Workers : IngestCommit(w)
    \/ \E t \in {"it", "sport"}, ids \in SourceIdLists :
        /\ analysis = {}
        /\ AnalyzeJob("w1", t, ids)
    \/ \E w \in Workers : Return(w)

SpecIngest == Init /\ [][NextIngest]_vars

(***************************************************************************)
(* Properties.                                                             *)
(***************************************************************************)
\* the analysis row a verification row references
AnalysisOf(v) == CHOOSE an \in analysis : an.id = v.analysis_id

\* the number of source ids of the analysis a verification row references
NSources(v) == Len(SourceIdsOf(AnalysisOf(v).items))

\* the verify jobs that have computed their row and not yet inserted it
VerifyPending(w) == jobs[w].op = "verify" /\ jobs[w].pc = "commit"

\* the jobs of a task that have ended
Ended(w, op) == jobs[w].op = op /\ jobs[w].pc = "done"

\* C1: every persisted verification has status passed when its score is at
\* least 65, flagged when it is at least 50 and below 65, failed when it is
\* below 50; the verification of an analysis with no sources has score 53.0
\* and status flagged.
C1_StatusByThresholds ==
    \A v \in verification :
        /\ v.reliability_score >= 6500 => v.status = "passed"
        /\ (5000 <= v.reliability_score /\ v.reliability_score < 6500) => v.status = "flagged"
        /\ v.reliability_score < 5000 => v.status = "failed"
        /\ NSources(v) = 0 => (v.reliability_score = 5300 /\ v.status = "flagged")

\* C1 witness: a verification of an analysis with no sources is stored, and
\* so is one on the passed side of the threshold, at exactly 65.0.
C1_Witness ==
    \E v1, v2 \in verification :
        /\ NSources(v1) = 0 /\ v1.status = "flagged"
        /\ v2.reliability_score = 6500 /\ v2.status = "passed"

\* C2: the persisted reliability_score is 0.30*S + 0.25*C + 0.15*T + 0.20*M
\* + 0.10*F of the persisted checks; with 5 sources the checks are 100, 70,
\* 80, 75, 85, the score is 83.0 and the status is passed.
C2_WeightedSum ==
    \A v \in verification :
        /\ v.reliability_score =
              30 * v.checks.S + 25 * v.checks.C + 15 * v.checks.T
                  + 20 * v.checks.M + 10 * v.checks.F
        /\ NSources(v) = 5 =>
              /\ v.checks = [S |-> 100, C |-> 70, T |-> 80, M |-> 75, F |-> 85]
              /\ v.reliability_score = 8300
              /\ v.status = "passed"

\* C2 witness: the verification of an analysis with 5 sources is stored.
C2_Witness == \E v \in verification : NSources(v) = 5

\* C3: for every number of sources the composite score lies in [0, 100]:
\* every sub-score lies in [0, 100] and the weights add up to 1.0.
C3_CompositeInRange ==
    /\ WeightS + WeightC + WeightT + WeightM + WeightF = 100
    /\ \A v \in verification :
        /\ 0 <= v.reliability_score /\ v.reliability_score <= 10000
        /\ \A k \in DOMAIN v.checks : 0 <= v.checks[k] /\ v.checks[k] <= 100

\* C3 witness: verifications of the shortest and of the longest source list
\* are stored, the longest being longer than the saturation count.
C3_Witness ==
    \E v1, v2 \in verification :
        /\ NSources(v1) = 0
        /\ NSources(v2) = MaxSources /\ MaxSources > K

\* C4: the S sub-score is non-decreasing in the number of source ids, is
\* exactly 100 from 5 sources on, and is 0 for no sources.
C4_SourceScoreMonotone ==
    /\ \A v1, v2 \in verification :
        NSources(v1) <= NSources(v2) => v1.checks.S <= v2.checks.S
    /\ \A v \in verification :
        /\ NSources(v) >= 5 => v.checks.S = 100
        /\ NSources(v) = 0 => v.checks.S = 0

\* C4 witness: two verifications are stored, one below saturation with a
\* smaller S, one of exactly K sources with S = 100.
C4_Witness ==
    \E v1, v2 \in verification :
        /\ 0 < NSources(v1) /\ NSources(v1) < K
        /\ NSources(v2) = K
        /\ v1.checks.S < v2.checks.S /\ v2.checks.S = 100

\* C5 as stated: when one verify_analysis call on an analysis has returned,
\* another call on the same, existing analysis returns too, with the same
\* status.
C5_SecondCallReturnsSameStatus ==
    \A w1, w2 \in Workers :
        (/\ w1 # w2
         /\ Ended(w1, "verify") /\ Ended(w2, "verify")
         /\ jobs[w1].arg = jobs[w2].arg
         /\ jobs[w1].result.ok
         /\ jobs[w2].result.error # "ValueError")
        => (jobs[w2].result.ok /\ jobs[w2].result.status = jobs[w1].result.status)

\* C5 amended: every verify_analysis call on an already verified analysis
\* computes the status and score the stored Verification holds, but does not
\* return them: of the calls on one analysis at most one returns (and what
\* it returns is the stored row), the others raise at the commit.
C5_SameStatusComputedOneReturn ==
    /\ \A w \in Workers : \A v \in verification :
        (VerifyPending(w) /\ v.analysis_id = jobs[w].arg) =>
            /\ jobs[w].row[1].status = v.status
            /\ jobs[w].row[1].reliability_score = v.reliability_score
    /\ \A w \in Workers :
        (Ended(w, "verify") /\ jobs[w].result.ok) =>
            \E v \in verification :
                /\ v.id = jobs[w].result.id
                /\ v.analysis_id = jobs[w].arg
                /\ v.status = jobs[w].result.status
                /\ <<v.reliability_score>> = jobs[w].result.score
    /\ \A w1, w2 \in Workers :
        (/\ w1 # w2
         /\ Ended(w1, "verify") /\ Ended(w2, "verify")
         /\ jobs[w1].arg = jobs[w2].arg)
        => ~(jobs[w1].result.ok /\ jobs[w2].result.ok)

\* C5 witness: on a later day than the first call, a second call has computed
\* its row for an analysis whose Verification the first call stored and
\* returned.
C5_Witness ==
    \E w1, w2 \in Workers : \E v \in verification :
        /\ Ended(w1, "verify") /\ jobs[w1].result.ok /\ jobs[w1].result.id = v.id
        /\ VerifyPending(w2) /\ jobs[w2].arg = v.analysis_id
        /\ DayOf(now) > 0

\* C6: each analysis has at most one verification row, and every
\* verification row references an existing analysis.
C6_OneVerificationPerAnalysis ==
    /\ \A v1, v2 \in verification : v1.analysis_id = v2.analysis_id => v1 = v2
    /\ \A v \in verification : \E an \in analysis : an.id = v.analysis_id

\* C6 witness: two verify jobs ran on the same analysis; one returned, the
\* other was rejected at its commit, and the analysis has its one row.
C6_Witness ==
    \E w1, w2 \in Workers :
        /\ Ended(w1, "verify") /\ jobs[w1].result.ok
        /\ Ended(w2, "verify") /\ jobs[w2].result.error = "IntegrityError"
        /\ jobs[w1].arg = jobs[w2].arg
        /\ Cardinality({v \in verification : v.analysis_id = jobs[w1].arg}) = 1

\* C7: a committed verification row never changes and is never removed, by
\* any step of verify, build, approve or publish.
C7_VerificationImmutable ==
    [][\A v \in verification : v \in verification']_vars

\* C7 witness: a verification is stored, a post built from its analysis has
\* been published to the CMS and then approved, and a later verify call on
\* the same analysis has ended in an error.
C7_Witness ==
    \E v \in verification : \E p \in post :
        /\ p.built_from = v.analysis_id
        /\ p.status = "approved" /\ p.cms_id # <<>>
        /\ Ended("w1", "verify") /\ jobs["w1"].arg = v.analysis_id
        /\ ~jobs["w1"].result.ok

\* C8 as stated: build_post on an analysis without a committed Verification
\* fails and creates no post.  A post row has a NULL reliability_score only
\* when the build_post call that made it found no Verification, so: no post
\* has a NULL reliability_score.
C8_NoPostWithoutVerification ==
    \A p \in post : p.reliability_score # <<>>

\* C9 as stated: every post, when build_post commits it, has status draft
\* and the reliability_score of the Verification of its analysis.
C9_PostCopiesVerificationScore ==
    [][\A p \in post' :
        p.id \notin {q.id : q \in post} =>
            /\ p.status = "draft"
            /\ \E v \in verification' :
                /\ v.analysis_id = p.built_from
                /\ p.reliability_score = <<v.reliability_score>>]_vars

\* C10 as stated: after any sequence of build_post calls on a verified
\* analysis at most one post exists for it (the posts counted are those
\* built when the Verification was there: their reliability_score is set).
C10_OnePostPerAnalysis ==
    \A p1, p2 \in post :
        (/\ p1.built_from = p2.built_from
         /\ p1.reliability_score # <<>>
         /\ p2.reliability_score # <<>>)
        => p1 = p2

\* the post rows the build jobs have computed and not yet inserted
PendingPosts ==
    {jobs[w].row[1] : w \in {x \in Workers : jobs[x].op = "build" /\ jobs[x].pc = "commit"}}

\* the (topic, analysis id, date) a post row was built from
TripleOf(p) == <<p.topic, p.built_from, DayOf(p.created_at)>>

\* C11: the posts of the store have pairwise distinct slugs, and the slug
\* build_post derives is a function of (topic, analysis id, date) that gives
\* distinct triples distinct slugs: over the stored posts and the posts
\* about to be inserted, two rows have the same slug exactly when they have
\* the same triple.
C11_SlugsUniqueAndInjective ==
    /\ \A p1, p2 \in post : p1.slug = p2.slug => p1 = p2
    /\ \A p1, p2 \in post \cup PendingPosts :
        (p1.slug = p2.slug) <=> (TripleOf(p1) = TripleOf(p2))

\* C11 witness: two posts built on the same day from two analyses of the
\* same topic are stored (their triples differ in the analysis id alone),
\* and a second build of one of them was rejected at its commit.
C11_Witness ==
    /\ \E p1, p2 \in post :
        /\ p1.topic = p2.topic /\ p1.built_from # p2.built_from
        /\ DayOf(p1.created_at) = DayOf(p2.created_at)
    /\ \E w \in Workers : Ended(w, "build") /\ jobs[w].result.error = "IntegrityError"

\* C12: what slugify returns is made of lowercase letters, digits and
\* hyphens only, has no two hyphens in a row and no hyphen at either end;
\* slugify of what slugify returned is the same string; slugify of
\* "Ecom News!!" is "ecom-news".
C12_SlugifyNormalForm ==
    /\ \A k \in DOMAIN slugified :
        LET r == slugified[k]
        IN /\ \A i \in DOMAIN r : r[i] \in Range(LowerChars) \cup Range(DigitChars) \cup {"-"}
           /\ \A i \in 1..(Len(r) - 1) : ~(r[i] = "-" /\ r[i + 1] = "-")
           /\ r # <<>> => (r[1] # "-" /\ r[Len(r)] # "-")
    /\ Len(slugified) = 2 => slugified[2] = slugified[1]
    /\ (value = EcomNews /\ slugified # <<>>) =>
            slugified[1] = <<"e","c","o","m","-","n","e","w","s">>

\* C12 witness: slugify was applied twice, to a string that has an
\* uppercase letter and a run of three characters that each become a hyphen.
C12_Witness ==
    /\ Len(slugified) = 2
    /\ \E i \in DOMAIN value : value[i] = "B"
    /\ \E i \in 1..(Len(value) - 2) :
        \A j \in i..(i + 2) : value[j] \in {"-", "!", " "}
    /\ \E i \in DOMAIN value : value[i] = "-"
    /\ slugified[1] # <<>>

\* the post a publish job was called for was built from a verified analysis
PublishedVerifiedPost(w) ==
    \E p \in post : p.id = jobs[w].arg /\ p.reliability_score # <<>>

\* C13 as stated: a publish_post call on an existing post whose Telegram
\* delivery fails and whose CMS delivery succeeds (the store accepting the
\* commit) does not raise, returns the status published, and returns a
\* result that reports the failure: a result that no call with both
\* deliveries succeeding returns.
C13_ResultReportsChannelError ==
    \A w \in Workers :
        (/\ Ended(w, "publish")
         /\ PublishedVerifiedPost(w)
         /\ jobs[w].sent.cms = "ok" /\ jobs[w].sent.telegram = "error"
         /\ jobs[w].result.error # "OperationalError")
        => /\ jobs[w].result.ok
           /\ jobs[w].result.status = "published"
           /\ \A x \in Workers :
                (/\ Ended(x, "publish") /\ jobs[x].result.ok
                 /\ jobs[x].sent.cms = "ok" /\ jobs[x].sent.telegram = "ok")
                => jobs[x].result # jobs[w].result

StoreVars == <<source_item, analysis, verification, post>>

StatusRank(st) ==
    CASE st = "draft" -> 0
      [] st = "in_review" -> 1
      [] st = "approved" -> 2
      [] st = "published" -> 3

\* C16 as stated: no step moves the status of a post backward along draft
\* -> in_review -> approved -> published (the posts followed are those built
\* from a verified analysis).
C16_StatusOnlyForward ==
    [][\A p \in post : \A q \in post' :
        (q.id = p.id /\ p.reliability_score # <<>>)
            => StatusRank(q.status) >= StatusRank(p.status)]_vars

\* C17 as stated: a job executed again with the same arguments, after its
\* first execution committed, leaves the store as it was.  An analysis row
\* holds the arguments of the build_analysis call that made it, a
\* verification row and a post the analysis id their task was called with.
\* So: no step adds an analysis with the topic and items of a stored one, a
\* verification for an analysis that has one, or a post for an analysis
\* that has one, and publishing a published post again to the same channels
\* leaves the post table as it is.
C17_RedeliveryChangesNothing ==
    [][/\ \A a \in analysis' \ analysis :
            ~\E b \in analysis : b.topic = a.topic /\ b.items = a.items
       /\ \A v \in verification' \ verification :
            ~\E u \in verification : u.analysis_id = v.analysis_id
       /\ \A p \in post' :
            p.id \notin {q.id : q \in post} =>
                ~\E q \in post : q.built_from = p.built_from
       /\ \A w \in Workers : \A p \in post :
            (/\ jobs[w].pc = "idle"
             /\ jobs'[w].op = "publish" /\ jobs'[w].result.ok
             /\ jobs'[w].arg = p.id
             /\ p.status = "published"
             /\ (p.cms_id # <<>>) <=> ("cms" \in jobs'[w].channels))
            => post' = post]_vars

\* C18: a verify_analysis call with an id no analysis has ends at once by
\* raising the not-found error (ValueError), and the step adds no
\* verification row.
C18_VerifyMissingAnalysisFails ==
    [][\A w \in Workers : \A a \in 1..MaxAnalyses :
        (/\ jobs[w].pc = "idle"
         /\ jobs'[w].op = "verify" /\ jobs'[w].arg = a
         /\ GetRow(analysis, a) = {})
        => /\ jobs'[w].pc = "done"
           /\ jobs'[w].result.error = "ValueError"
           /\ verification' = verification]_vars

\* C18 witness: one analysis is stored and verified, and a call for an id
\* that no analysis has has raised the not-found error.
C18_Witness ==
    /\ Ended("w1", "verify") /\ jobs["w1"].result.error = "ValueError"
    /\ GetRow(analysis, jobs["w1"].arg) = {}
    /\ analysis # {} /\ verification # {}

\* C19 as stated: every run of the ingest stage with a valid topic returns,
\* having committed a source item of its own, with a URL no other item has
\* and with its hashes set.
C19_EveryIngestCommitsNewItem ==
    \A w \in Workers :
        (Ended(w, "ingest") /\ jobs[w].topic \in TopicEnum) =>
            /\ jobs[w].result.ok
            /\ \E x \in source_item :
                /\ x.id = jobs[w].result.id
                /\ x.hashes # <<>>
                /\ \A y \in source_item : y.source_url = x.source_url => y = x

\* C20 as stated: build_analysis commits an analysis only when every id of
\* its source_ids is the id of a stored source item (items are never
\* deleted, so an id that exists now is the only kind that existed at the
\* commit).
C20_AnalysisSourcesExist ==
    \A an \in analysis :
        \A i \in Range(SourceIdsOf(an.items)) : \E x \in source_item : x.id = i

C22_NeverFailed ==
    \A v \in verification :
        /\ v.status # "failed"
        /\ v.status \in {"passed", "flagged"}
        /\ v.reliability_score >= 5300
        /\ NSources(v) = 2 => (v.reliability_score = 6500 /\ v.status = "passed")

\* C22 witness: the verifications of an analysis with no sources (the
\* lowest composite) and of one with exactly 2 sources are stored.
C22_Witness ==
    \E v1, v2 \in verification :
        /\ NSources(v1) = 0 /\ v1.reliability_score = 5300
        /\ NSources(v2) = 2 /\ v2.status = "passed"

=============================================================================
